---- MODULE Spec2Model ----
(***************************************************************************)
(* Model of main.py of triangulo-duval: the Duval Triangle 1 classifier,   *)
(* the ternary projection, the zone-fill rasterization of the plot, the    *)
(* IEEE C57.104-2019 screening steps and the Streamlit session shell.      *)
(*                                                                         *)
(* Numbers.  Percentages are fixed-point integers, PU units per percent    *)
(* point.  PU is chosen so that every sample of the plot's mesh            *)
(* (np.linspace(1e-6, 1 - 1e-6, n)) and every threshold of the rule table  *)
(* is an exact integer: the comparisons of the code are then modelled      *)
(* exactly, without rounding.  Plane coordinates are integers in units of  *)
(* 1/PlaneDen.                                                             *)
(***************************************************************************)
EXTENDS Integers, Sequences, FiniteSets, TLC

VARIABLES
    \* direct calls of clasificar_duval / tern2cart (SpecDuval)
    arg_ch4, arg_c2h4, arg_c2h2, zona, regla, xy,
    \* one sample of the mesh of plot_duval_triangle (SpecGrid)
    gi, gj, Z, zona_g,
    \* the IEEE screening engine (SpecIEEE)
    o2_ppm, n2_ppm, ratio_key, age_key, valores_ppm, p90, p95, cond_num, paso,
    \* the slider branch of the shell alone (SpecSlider)
    sl_ch4, sl_c2h4, sl_pct, sl_diag,
    \* the Streamlit session (Spec)
    input_mode, widgets, pct_ch4, pct_c2h4, pct_c2h2, diagnostico,
    dga_history, btn_guardar

duvalVars  == <<arg_ch4, arg_c2h4, arg_c2h2, zona, regla, xy>>
gridVars   == <<gi, gj, Z, zona_g>>
ieeeVars   == <<o2_ppm, n2_ppm, ratio_key, age_key, valores_ppm, p90, p95, cond_num, paso>>
sliderVars == <<sl_ch4, sl_c2h4, sl_pct, sl_diag>>
shellVars  == <<input_mode, widgets, pct_ch4, pct_c2h4, pct_c2h2, diagnostico,
                dga_history, btn_guardar>>
vars == <<duvalVars, gridVars, ieeeVars, sliderVars, shellVars>>

(***************************************************************************)
(* Units                                                                   *)
(***************************************************************************)
\* n = 120: the mesh of the zone fill has n x n samples
n == 120
\* PU units per percent point; 100 * linspace(1e-6, 1 - 1e-6, n)[j] is the
\* integer 2 * (n - 1 + j * 999998) in these units
PU == 20000 * (n - 1)
\* plane coordinates: x = XN / PlaneDen, y = YN / PlaneDen
PlaneDen == 200 * PU
\* v percent points
P(v) == v * PU
\* the step of the direct-call inputs around the thresholds: 0.005 points
Eps == PU \div 200

Abs(v) == IF v < 0 THEN -v ELSE v

\* the value "not computed yet" of a result variable
None == "None"

(***************************************************************************)
(* tern2cart and its inverse as the plot's mesh computes it                *)
(***************************************************************************)
\* x = c2h4 / 100 + ch4 / 200, y = ch4 / 100, in units of 1 / PlaneDen
tern2cart_swapped(ch4, c2h4, c2h2) == <<2 * c2h2 + ch4, 2 * ch4>>

tern2cart(ch4, c2h4, c2h2) == <<2 * c2h4 + ch4, 2 * ch4>>

\* ch4_g = Y * 100, c2h4_g = (X - Y / 2) * 100, c2h2_g = 100 - ch4_g - c2h4_g
\* (exact when XN, YN and XN - YN / 2 are even, which holds on the mesh and on
\* every image of tern2cart)
cart2tern(X, Y) ==
    LET ch4_g  == Y \div 2
        c2h4_g == (X - Y \div 2) \div 2
    IN  <<ch4_g, c2h4_g, P(100) - ch4_g - c2h4_g>>

(***************************************************************************)
(* clasificar_duval: the ordered rule table                                *)
(***************************************************************************)
NA    == "N/A"
Fuera == "Fuera (suma /= 100%)"

\* the rules after the zero and sum checks, first match wins
reglas_duval(ch4, c2h4, c2h2) ==
    IF ch4 >= P(98) THEN "PD"
    ELSE IF c2h2 < P(4) /\ c2h4 < P(20) THEN "T1"
    ELSE IF c2h2 < P(4) /\ P(20) <= c2h4 /\ c2h4 < P(50) THEN "T2"
    ELSE IF c2h2 < P(15) /\ c2h4 >= P(50) THEN "T3"
    ELSE IF c2h2 >= P(13) /\ c2h4 < P(23) THEN "D1"
    ELSE IF c2h4 >= P(23) /\ c2h2 >= P(29) THEN "D2"
    ELSE IF P(23) <= c2h4 /\ c2h4 < P(40) /\ P(13) <= c2h2 /\ c2h2 < P(29) THEN "D2"
    ELSE IF P(4) <= c2h2 /\ c2h2 < P(13) /\ c2h4 < P(50) THEN "DT"
    ELSE IF P(40) <= c2h4 /\ c2h4 < P(50) /\ P(13) <= c2h2 /\ c2h2 < P(29) THEN "DT"
    ELSE IF c2h4 >= P(50) /\ P(15) <= c2h2 /\ c2h2 < P(29) THEN "DT"
    ELSE "DT"

\* a plausible slip: the T1 rule tried before the PD rule
clasificar_duval_t1_first(ch4, c2h4, c2h2) ==
    LET total == ch4 + c2h4 + c2h2
    IN  IF total = 0 THEN NA
        ELSE IF Abs(ch4 + c2h4 + c2h2 - P(100)) > PU \div 100 THEN Fuera
        ELSE IF c2h2 < P(4) /\ c2h4 < P(20) THEN "T1"
        ELSE reglas_duval(ch4, c2h4, c2h2)

clasificar_duval(ch4, c2h4, c2h2) ==
    LET total == ch4 + c2h4 + c2h2
    IN  IF total = 0 THEN NA
        ELSE IF Abs(ch4 + c2h4 + c2h2 - P(100)) > PU \div 100 THEN Fuera
        ELSE reglas_duval(ch4, c2h4, c2h2)

ZoneCodes == {"PD", "T1", "T2", "T3", "D1", "D2", "DT"}

\* a plausible slip: 40 < c2h4 in the second DT rule, which leaves c2h4 = 40
\* to the final return
regla_duval_gap(ch4, c2h4, c2h2) ==
    IF ch4 + c2h4 + c2h2 = 0 THEN 1
    ELSE IF Abs(ch4 + c2h4 + c2h2 - P(100)) > PU \div 100 THEN 2
    ELSE IF ch4 >= P(98) THEN 3
    ELSE IF c2h2 < P(4) /\ c2h4 < P(20) THEN 4
    ELSE IF c2h2 < P(4) /\ P(20) <= c2h4 /\ c2h4 < P(50) THEN 5
    ELSE IF c2h2 < P(15) /\ c2h4 >= P(50) THEN 6
    ELSE IF c2h2 >= P(13) /\ c2h4 < P(23) THEN 7
    ELSE IF c2h4 >= P(23) /\ c2h2 >= P(29) THEN 8
    ELSE IF P(23) <= c2h4 /\ c2h4 < P(40) /\ P(13) <= c2h2 /\ c2h2 < P(29) THEN 9
    ELSE IF P(4) <= c2h2 /\ c2h2 < P(13) /\ c2h4 < P(50) THEN 10
    ELSE IF P(40) < c2h4 /\ c2h4 < P(50) /\ P(13) <= c2h2 /\ c2h2 < P(29) THEN 11
    ELSE IF c2h4 >= P(50) /\ P(15) <= c2h2 /\ c2h2 < P(29) THEN 12
    ELSE 13

\* the return statement of clasificar_duval a call leaves through, numbered
\* in the order of the code: 1 N/A, 2 out of range, 3 PD, 4 T1, 5 T2, 6 T3,
\* 7 D1, 8 and 9 D2, 10 to 12 DT, 13 the final return "DT"
regla_duval(ch4, c2h4, c2h2) ==
    IF ch4 + c2h4 + c2h2 = 0 THEN 1
    ELSE IF Abs(ch4 + c2h4 + c2h2 - P(100)) > PU \div 100 THEN 2
    ELSE IF ch4 >= P(98) THEN 3
    ELSE IF c2h2 < P(4) /\ c2h4 < P(20) THEN 4
    ELSE IF c2h2 < P(4) /\ P(20) <= c2h4 /\ c2h4 < P(50) THEN 5
    ELSE IF c2h2 < P(15) /\ c2h4 >= P(50) THEN 6
    ELSE IF c2h2 >= P(13) /\ c2h4 < P(23) THEN 7
    ELSE IF c2h4 >= P(23) /\ c2h2 >= P(29) THEN 8
    ELSE IF P(23) <= c2h4 /\ c2h4 < P(40) /\ P(13) <= c2h2 /\ c2h2 < P(29) THEN 9
    ELSE IF P(4) <= c2h2 /\ c2h2 < P(13) /\ c2h4 < P(50) THEN 10
    ELSE IF P(40) <= c2h4 /\ c2h4 < P(50) /\ P(13) <= c2h2 /\ c2h2 < P(29) THEN 11
    ELSE IF c2h4 >= P(50) /\ P(15) <= c2h2 /\ c2h2 < P(29) THEN 12
    ELSE 13

\* the value each return statement returns
zona_de_regla ==
    <<NA, Fuera, "PD", "T1", "T2", "T3", "D1", "D2", "D2", "DT", "DT", "DT", "DT">>

(***************************************************************************)
(* SpecDuval: direct calls of clasificar_duval and tern2cart               *)
(***************************************************************************)
\* percentages tried for ch4 and c2h4: the thresholds of the table, a value
\* just below each, interior values, and values outside [0, 100]
PctVals ==
    {P(v) : v \in {-50, -2, 0, 2, 4, 13, 15, 20, 23, 29, 40, 50, 65, 98, 99, 100, 120}}
    \cup {P(v) - Eps : v \in {4, 13, 20, 50, 98}}

\* sums tried: 0, 100, 100 -+ 0.005, 100 -+ 0.015, 100.5 and 50
Totales ==
    {0, P(100), P(100) - Eps, P(100) + Eps, P(100) - 3 * Eps, P(100) + 3 * Eps,
     P(100) + PU \div 2, P(50)}

\* a value in every cell the thresholds S cut the line into: each threshold,
\* the values 0.005 below and above it, and values between and beyond them
Around(S) == {P(v) + d : v \in S, d \in {-Eps, 0, Eps}}

\* c2h4 against its thresholds 20, 23, 40, 50 and c2h2 against 4, 13, 15, 29
C2h4Cells == Around({20, 23, 40, 50}) \cup {P(v) : v \in {-2, 0, 10, 21, 30, 45, 65, 100, 120}}
C2h2Cells == Around({4, 13, 15, 29}) \cup {P(v) : v \in {-2, 0, 2, 8, 14, 20, 60, 100, 120}}

\* the zone-label anchors of plot_duval_triangle: (ch4, c2h4, c2h2, texto)
etiquetas_tern ==
    << <<P(99), PU \div 2, PU \div 2, "PD">>,
       <<P(87), P(10), P(3), "T1">>,
       <<P(60), P(35), P(2), "T2">>,
       <<P(25), P(65), P(10), "T3">>,
       <<P(50), P(15), P(35), "D1">>,
       <<P(25), P(35), P(40), "D2">>,
       <<P(40), P(35), P(25), "DT">> >>

\* the triples of the direct calls: ch4 and c2h4 from PctVals with c2h2 set
\* by the sum; every cell of (c2h4, c2h2) with ch4 set by a sum of 100
\* or 100 -+ 0.005; and the label anchors
DuvalInputs ==
    {<<a, b, t - a - b>> : a \in PctVals, b \in PctVals, t \in Totales}
    \cup {<<t - b - c, b, c>> :
            b \in C2h4Cells, c \in C2h2Cells, t \in {P(100), P(100) - Eps, P(100) + Eps}}
    \cup {<<etiquetas_tern[k][1], etiquetas_tern[k][2], etiquetas_tern[k][3]>> :
            k \in 1 .. Len(etiquetas_tern)}

InitDuvalVars ==
    /\ \E t \in DuvalInputs :
         arg_ch4 = t[1] /\ arg_c2h4 = t[2] /\ arg_c2h2 = t[3]
    /\ zona = None
    /\ regla = 0
    /\ xy = None

IdleDuvalVars ==
    /\ arg_ch4 = 0 /\ arg_c2h4 = 0 /\ arg_c2h2 = 0 /\ zona = None /\ regla = 0
    /\ xy = None

CallClasificar ==
    /\ zona = None
    /\ zona' = clasificar_duval(arg_ch4, arg_c2h4, arg_c2h2)
    /\ regla' = regla_duval(arg_ch4, arg_c2h4, arg_c2h2)
    /\ UNCHANGED <<arg_ch4, arg_c2h4, arg_c2h2, xy>>
    /\ UNCHANGED <<gridVars, ieeeVars, sliderVars, shellVars>>

CallTern2cart ==
    /\ xy = None
    /\ xy' = tern2cart(arg_ch4, arg_c2h4, arg_c2h2)
    /\ UNCHANGED <<arg_ch4, arg_c2h4, arg_c2h2, zona, regla>>
    /\ UNCHANGED <<gridVars, ieeeVars, sliderVars, shellVars>>

(***************************************************************************)
(* SpecGrid: the zone fill of plot_duval_triangle, one mesh sample         *)
(***************************************************************************)
\* xx[i] = yy[i] = np.linspace(1e-6, 1 - 1e-6, n)[i], in units of 1 / PlaneDen
linspace(i) == 4 * ((n - 1) + i * 999998)

\* Z of a sample is <<k>> once the fill has written index k, and NaN
\* (np.nan, the value Z is created with) when no assignment reaches it
NaN == <<>>

zonas == <<"PD", "T1", "T2", "T3", "D1", "D2", "DT">>

\* inside = (ch4_g >= 0) & (c2h4_g >= 0) & (c2h2_g >= 0)
inside(c4, c24, c22) == c4 >= 0 /\ c24 >= 0 /\ c22 >= 0

\* Z of one sample after the masked assignments, taken in the order of the
\* code: a later assignment overwrites an earlier one
Z_fill(c4, c24, c22) ==
    LET in  == inside(c4, c24, c22)
        z0  == IF in THEN <<6>> ELSE NaN
        z1  == IF in /\ c4 >= P(98) THEN <<0>> ELSE z0
        z2  == IF in /\ c22 < P(4) /\ c24 < P(20) THEN <<1>> ELSE z1
        z3  == IF in /\ c22 < P(4) /\ c24 >= P(20) /\ c24 < P(50) THEN <<2>> ELSE z2
        z4  == IF in /\ c22 < P(15) /\ c24 >= P(50) THEN <<3>> ELSE z3
        z5  == IF in /\ c22 >= P(13) /\ c24 < P(23) THEN <<4>> ELSE z4
        z6  == IF in /\ c24 >= P(23) /\ c22 >= P(29) THEN <<5>> ELSE z5
        z7  == IF in /\ c24 >= P(23) /\ c24 < P(40) /\ c22 >= P(13) /\ c22 < P(29)
               THEN <<5>> ELSE z6
        z8  == IF in /\ c22 >= P(4) /\ c22 < P(13) /\ c24 < P(50) THEN <<6>> ELSE z7
        z9  == IF in /\ c24 >= P(40) /\ c24 < P(50) /\ c22 >= P(13) /\ c22 < P(29)
               THEN <<6>> ELSE z8
        z10 == IF in /\ c24 >= P(50) /\ c22 >= P(15) /\ c22 < P(29) THEN <<6>> ELSE z9
    IN  z10

\* (ch4_g, c2h4_g, c2h2_g) of the sample in column i, row j of the mesh
muestra(i, j) == cart2tern(linspace(i), linspace(j))

InitGridVars ==
    /\ gi \in 0 .. n - 1
    /\ gj \in 0 .. n - 1
    /\ Z = None
    /\ zona_g = None

IdleGridVars ==
    /\ gi = 0 /\ gj = 0 /\ Z = None /\ zona_g = None

\* the fill writes Z at the sample
FillSample ==
    /\ Z = None
    /\ Z' = Z_fill(muestra(gi, gj)[1], muestra(gi, gj)[2], muestra(gi, gj)[3])
    /\ UNCHANGED <<gi, gj, zona_g>>
    /\ UNCHANGED <<duvalVars, ieeeVars, sliderVars, shellVars>>

\* the point classifier on the same inverted components
ClassifySample ==
    /\ zona_g = None
    /\ zona_g' = clasificar_duval(muestra(gi, gj)[1], muestra(gi, gj)[2], muestra(gi, gj)[3])
    /\ UNCHANGED <<gi, gj, Z>>
    /\ UNCHANGED <<duvalVars, ieeeVars, sliderVars, shellVars>>

(***************************************************************************)
(* The IEEE C57.104-2019 screening: tables and the three steps             *)
(*                                                                         *)
(* Gas readings and thresholds are integers (ppm).  A dict is a function   *)
(* whose DOMAIN is its key set; {} is EmptyRow.                            *)
(***************************************************************************)
GASES_IEEE == <<"H2", "CH4", "C2H6", "C2H4", "C2H2", "CO", "CO2">>

GasSet == {GASES_IEEE[k] : k \in 1 .. Len(GASES_IEEE)}

Row(h2, ch4, c2h6, c2h4, c2h2, co, co2) ==
    "H2" :> h2 @@ "CH4" :> ch4 @@ "C2H6" :> c2h6 @@ "C2H4" :> c2h4
    @@ "C2H2" :> c2h2 @@ "CO" :> co @@ "CO2" :> co2

EmptyRow == [g \in {} |-> 0]

TABLA_P90 ==
    "leq02" :> ( "desc"  :> Row(80, 90, 90, 50, 1, 900, 9000)
              @@ "1_9"   :> Row(80, 45, 30, 20, 1, 900, 5000)
              @@ "10_30" :> Row(75, 90, 90, 50, 1, 900, 10000)
              @@ "30"    :> Row(100, 110, 150, 90, 1, 900, 5000) )
    @@
    "gt02"  :> ( "desc"  :> Row(40, 20, 15, 50, 2, 500, 3500)
              @@ "1_9"   :> Row(40, 20, 15, 25, 2, 500, 3500)
              @@ "10_30" :> Row(40, 20, 15, 60, 2, 500, 5500)
              @@ "30"    :> Row(40, 20, 15, 60, 2, 500, 5500) )

TABLA_P95 ==
    "leq02" :> ( "desc"  :> Row(200, 150, 175, 100, 2, 1100, 12500)
              @@ "1_9"   :> Row(200, 100, 70, 40, 2, 1100, 7000)
              @@ "10_30" :> Row(200, 150, 175, 95, 2, 1100, 14000)
              @@ "30"    :> Row(200, 200, 250, 175, 4, 1100, 14000) )
    @@
    "gt02"  :> ( "desc"  :> Row(90, 50, 40, 100, 7, 600, 7000)
              @@ "1_9"   :> Row(90, 60, 30, 80, 7, 600, 5000)
              @@ "10_30" :> Row(90, 60, 40, 125, 7, 600, 8000)
              @@ "30"    :> Row(90, 80, 40, 125, 7, 600, 8000) )

RatioKeys == {"leq02", "gt02"}
AgeKeys   == {"desc", "1_9", "10_30", "30"}

\* d.get(k, default)
get(d, k, default) == IF k \in DOMAIN d THEN d[k] ELSE default

\* d.get(k) or 0: a missing key gives 0 (and so does a key held at 0)
get_or_0(d, k) == IF k \in DOMAIN d THEN d[k] ELSE 0

\* an optional reading: Ausente is Python's None, Some(v) the number v
Ausente == <<>>
Some(v) == <<v>>

\* a plausible slip: ratio < 0.2 for the sealed regime
ieee_paso1_strict(o2, n2) ==
    IF n2 = Ausente THEN None
    ELSE IF n2[1] = 0 THEN None
    ELSE LET o == IF o2 = Ausente THEN 0 ELSE o2[1]
             d == n2[1]
         IN  IF (d > 0 /\ 5 * o < d) \/ (d < 0 /\ 5 * o > d)
             THEN "leq02" ELSE "gt02"

\* ratio = (o2_ppm or 0) / n2_ppm; ratio <= 0.2 is 5 * o2 <= n2 for n2 > 0 and
\* 5 * o2 >= n2 for n2 < 0 (exact for the magnitudes a reading takes: the
\* rounded quotient of two integers below 10^15 is <= the double 0.2 exactly
\* when the quotient is <= 1/5)
ieee_paso1_clasificar_sistema(o2, n2) ==
    IF n2 = Ausente THEN None
    ELSE IF n2[1] = 0 THEN None
    ELSE LET o == IF o2 = Ausente THEN 0 ELSE o2[1]
             d == n2[1]
         IN  IF (d > 0 /\ 5 * o <= d) \/ (d < 0 /\ 5 * o >= d)
             THEN "leq02" ELSE "gt02"

\* <<p90, p95>>
ieee_obtener_limites(rk, ak) ==
    <<get(get(TABLA_P90, rk, EmptyRow), ak, EmptyRow),
      get(get(TABLA_P95, rk, EmptyRow), ak, EmptyRow)>>

\* the loop over GASES_IEEE from position k on: <<alguno_p95, alguno_p90>>
RECURSIVE bucle_gases(_, _, _, _, _, _)
bucle_gases(k, valores, r90, r95, alguno_p95, alguno_p90) ==
    IF k > Len(GASES_IEEE) THEN <<alguno_p95, alguno_p90>>
    ELSE LET g     == GASES_IEEE[k]
             v     == get_or_0(valores, g)
             lim95 == get_or_0(r95, g)
             lim90 == get_or_0(r90, g)
         IN  bucle_gases(k + 1, valores, r90, r95,
                         alguno_p95 \/ v >= lim95, alguno_p90 \/ v >= lim90)

\* a plausible slip: the P90 flag tested before the P95 flag
ieee_paso3_p90_first(valores, r90, r95) ==
    LET f == bucle_gases(1, valores, r90, r95, FALSE, FALSE)
    IN  IF f[2] THEN 2 ELSE IF f[1] THEN 3 ELSE 1

\* the condition number: 3 (Alta/Alerta), 2 (Precaucion), 1 (Normal)
ieee_paso3_condicion(valores, r90, r95) ==
    LET f == bucle_gases(1, valores, r90, r95, FALSE, FALSE)
    IN  IF f[1] THEN 3 ELSE IF f[2] THEN 2 ELSE 1

(***************************************************************************)
(* SpecIEEE: the screening engine, step by step, and direct calls of       *)
(* ieee_paso3_condicion                                                    *)
(***************************************************************************)
\* readings of O2 and N2 tried: absent, zero, and both sides of ratio 0.2
O2Vals == {Ausente} \cup {Some(v) : v \in {0, 1, 5, 19, 20, 21, 1999, 2000, 2001}}
N2Vals == {Ausente} \cup {Some(v) : v \in {0, 5, 100, 10000, -100}}

\* the row pair a panel is built around
BaseRows(rk, ak) == ieee_obtener_limites(IF rk = None THEN "leq02" ELSE rk, ak)

\* a reading of gas g: level 0 just below P90, 1 at P90, 2 at P95
Nivel(rows, l, g) ==
    IF l = 0 THEN rows[1][g] - 1 ELSE IF l = 1 THEN rows[1][g] ELSE rows[2][g]

Niveles == 0 .. 2

PanelCero == [g \in GasSet |-> 0]

\* every panel with each gas at one of the three levels
PanelesNivel(rows) ==
    {[g \in GasSet |-> Nivel(rows, lv[g], g)] : lv \in [GasSet -> Niveles]}

\* panels of the direct calls: all gases at one level, one gas raised above
\* the others, all zero, and a panel that holds CH4 alone
PanelesDirectos(rows) ==
    {PanelCero, "CH4" :> rows[2]["CH4"]}
    \cup {[g \in GasSet |-> Nivel(rows, l, g)] : l \in Niveles}
    \cup {[g \in GasSet |-> IF g = g0 THEN Nivel(rows, l, g) ELSE Nivel(rows, 0, g)] :
            g0 \in GasSet, l \in {1, 2}}

Restrict(row, S) == [g \in S |-> row[g]]

\* the key sets left in a row by the direct calls: complete, one gas
\* missing, empty
KeySets == {GasSet, {}} \cup {GasSet \ {g} : g \in GasSet}

\* row pairs of the direct calls: a pair of the tables with keys removed from
\* either row, and the pair with its rows exchanged
RowPairs(rows) ==
    {<<Restrict(rows[1], k90), Restrict(rows[2], k95)>> :
        k90 \in KeySets, k95 \in KeySets}
    \cup {<<rows[2], rows[1]>>}

\* the regime is classified from O2 and N2 and the panel is all zero
InitRegimen ==
    /\ o2_ppm \in O2Vals
    /\ n2_ppm \in N2Vals
    /\ age_key \in AgeKeys
    /\ valores_ppm = PanelCero
    /\ ratio_key = None /\ p90 = EmptyRow /\ p95 = EmptyRow /\ cond_num = 0
    /\ paso = 1

\* the three regimes, every age, every panel of levels
InitPanel ==
    /\ \E on \in {<<Some(20), Some(100)>>, <<Some(21), Some(100)>>, <<Some(5), Some(0)>>} :
         o2_ppm = on[1] /\ n2_ppm = on[2]
    /\ age_key \in AgeKeys
    /\ valores_ppm \in
         PanelesNivel(BaseRows(ieee_paso1_clasificar_sistema(o2_ppm, n2_ppm), age_key))
    /\ ratio_key = None /\ p90 = EmptyRow /\ p95 = EmptyRow /\ cond_num = 0
    /\ paso = 1

\* ieee_paso3_condicion called on rows given by the caller
InitDirecto ==
    /\ o2_ppm = Ausente /\ n2_ppm = Ausente /\ ratio_key = None
    /\ age_key \in AgeKeys
    /\ \E rk \in RatioKeys :
         /\ \E rp \in RowPairs(BaseRows(rk, age_key)) : p90 = rp[1] /\ p95 = rp[2]
         /\ valores_ppm \in PanelesDirectos(BaseRows(rk, age_key))
    /\ cond_num = 0
    /\ paso = 3

InitIEEEVars == InitRegimen \/ InitPanel \/ InitDirecto

IdleIEEEVars ==
    /\ o2_ppm = Ausente /\ n2_ppm = Ausente /\ ratio_key = None /\ age_key = "desc"
    /\ valores_ppm = PanelCero /\ p90 = EmptyRow /\ p95 = EmptyRow
    /\ cond_num = 0 /\ paso = 0

Paso1 ==
    /\ paso = 1
    /\ ratio_key' = ieee_paso1_clasificar_sistema(o2_ppm, n2_ppm)
    /\ paso' = 2
    /\ UNCHANGED <<o2_ppm, n2_ppm, age_key, valores_ppm, p90, p95, cond_num>>
    /\ UNCHANGED <<duvalVars, gridVars, sliderVars, shellVars>>

Paso2 ==
    /\ paso = 2
    /\ p90' = ieee_obtener_limites(ratio_key, age_key)[1]
    /\ p95' = ieee_obtener_limites(ratio_key, age_key)[2]
    /\ paso' = 3
    /\ UNCHANGED <<o2_ppm, n2_ppm, ratio_key, age_key, valores_ppm, cond_num>>
    /\ UNCHANGED <<duvalVars, gridVars, sliderVars, shellVars>>

Paso3 ==
    /\ paso = 3
    /\ cond_num' = ieee_paso3_condicion(valores_ppm, p90, p95)
    /\ paso' = 4
    /\ UNCHANGED <<o2_ppm, n2_ppm, ratio_key, age_key, valores_ppm, p90, p95>>
    /\ UNCHANGED <<duvalVars, gridVars, sliderVars, shellVars>>

(***************************************************************************)
(* The shell: normalisation of the inputs                                  *)
(***************************************************************************)
RECURSIVE GCD(_, _)
GCD(a, b) == IF b = 0 THEN a ELSE GCD(b, a % b)

\* (a / t) * m for 0 <= a and 0 < t, rounded down to a whole unit (the float
\* result is within 1e-13 of it); a and t are reduced by their common divisor
\* first, which keeps every intermediate product small
MulDiv(a, m, t) ==
    LET g  == GCD(a, t)
        k  == a \div g
        tt == t \div g
    IN  k * (m \div tt) + (k * (m % tt)) \div tt

\* PPM mode: the three readings as percentages of their total
ppm_pct(val_ch4, val_c2h4, val_c2h2) ==
    LET total == val_ch4 + val_c2h4 + val_c2h2
    IN  IF total > 0
        THEN <<MulDiv(val_ch4, P(100), total), MulDiv(val_c2h4, P(100), total),
               MulDiv(val_c2h2, P(100), total)>>
        ELSE <<0, 0, 0>>

\* a plausible slip: the renormalisation left out
slider_pct_no_renorm(s_ch4, s_c2h4) ==
    LET r == P(100) - s_ch4 - s_c2h4
    IN  <<s_ch4, s_c2h4, IF r < 0 THEN 0 ELSE r>>

\* slider mode: C2H2 is the remainder, clamped at 0; the three are
\* renormalised when their total is positive and more than 1 point off 100
slider_pct(s_ch4, s_c2h4) ==
    LET r            == P(100) - s_ch4 - s_c2h4
        resto        == IF r < 0 THEN 0 ELSE r
        total_slider == s_ch4 + s_c2h4 + resto
    IN  IF total_slider > 0 /\ Abs(total_slider - P(100)) > P(1)
        THEN <<MulDiv(s_ch4, P(100), total_slider),
               MulDiv(s_c2h4, P(100), total_slider),
               MulDiv(resto, P(100), total_slider)>>
        ELSE <<s_ch4, s_c2h4, resto>>

(***************************************************************************)
(* SpecSlider: the slider branch followed by the classifier                *)
(***************************************************************************)
\* slider positions tried, in hundredths of a point (the slider's step)
SliderVals ==
    {h * (PU \div 100) :
        h \in {0, 1, 50, 100, 3330, 4999, 5000, 5001, 5050, 5100, 5101, 6000, 9900, 10000}}

InitSliderVars ==
    /\ sl_ch4 \in SliderVals
    /\ sl_c2h4 \in SliderVals
    /\ sl_pct = None
    /\ sl_diag = None

IdleSliderVars ==
    /\ sl_ch4 = 0 /\ sl_c2h4 = 0 /\ sl_pct = None /\ sl_diag = None

SliderNormalize ==
    /\ sl_pct = None
    /\ sl_pct' = slider_pct(sl_ch4, sl_c2h4)
    /\ UNCHANGED <<sl_ch4, sl_c2h4, sl_diag>>
    /\ UNCHANGED <<duvalVars, gridVars, ieeeVars, shellVars>>

SliderClassify ==
    /\ sl_pct # None
    /\ sl_diag = None
    /\ sl_diag' = clasificar_duval(sl_pct[1], sl_pct[2], sl_pct[3])
    /\ UNCHANGED <<sl_ch4, sl_c2h4, sl_pct>>
    /\ UNCHANGED <<duvalVars, gridVars, ieeeVars, shellVars>>

(***************************************************************************)
(* Spec: the Streamlit session.  Every interaction with a widget runs the  *)
(* whole script again on the widgets' current values; st.button returns    *)
(* True in the run its click causes and False in every other run.          *)
(***************************************************************************)
\* the records the history may hold before the save button is disabled in
\* the model
MaxHistory == 2

PPM == "PPM (Partes por millon)"
PCT == "% Porcentaje Relativo"

\* values a user gives the widgets (the first of each set is the default)
PpmVals      == {10, 0}
SliderCh4    == {P(33) + 3 * (PU \div 10), P(50) + PU \div 2}
SliderC2h4   == {P(33) + 3 * (PU \div 10), P(50)}
IeeeN2Vals   == {10000, 0}
IeeeCh4Vals  == {0, 150}

DefaultWidgets ==
    [val_ch4 |-> 10, val_c2h4 |-> 10, val_c2h2 |-> 10,
     pct_ch4 |-> P(33) + 3 * (PU \div 10), pct_c2h4 |-> P(33) + 3 * (PU \div 10),
     id_trafo |-> "Trafo-01"]

\* get_fault_details(code)[0]
nombre_falla(code) ==
    CASE code = "PD" -> "Descargas Parciales"
      [] code = "T1" -> "Falla Termica < 300C"
      [] code = "T2" -> "Falla Termica 300C - 700C"
      [] code = "T3" -> "Falla Termica > 700C"
      [] code = "D1" -> "Descargas de Baja Energia"
      [] code = "D2" -> "Descargas de Alta Energia"
      [] code = "DT" -> "Falla Termica y Electrica"
      [] code = NA -> "Sin datos suficientes"
      [] code = Fuera -> "Fuera del triangulo"
      [] OTHER -> "Desconocido"

\* round(v, 1), in tenths of a point (ties to the even tenth)
round1(v) ==
    LET t == PU \div 10
        q == v \div t
        r == v % t
    IN  IF 2 * r < t THEN q
        ELSE IF 2 * r > t THEN q + 1
        ELSE IF q % 2 = 0 THEN q ELSE q + 1

\* the percentages the script computes from the widgets
script_pct(mode, w) ==
    IF mode = PPM THEN ppm_pct(w.val_ch4, w.val_c2h4, w.val_c2h2)
    ELSE slider_pct(w.pct_ch4, w.pct_c2h4)

\* the record the save button builds
registro(w, c4, c24, c22, diag) ==
    [ID |-> w.id_trafo, CH4_pct |-> round1(c4), C2H4_pct |-> round1(c24),
     C2H2_pct |-> round1(c22), Codigo |-> diag, Diagnostico |-> nombre_falla(diag)]

\* a plausible slip: the list is created anew in every run (the guard
\* "dga_history" not in st.session_state left out)
RunDuval_reinit(m, w, click) ==
    LET pct  == script_pct(m, w)
        diag == clasificar_duval(pct[1], pct[2], pct[3])
    IN  /\ input_mode' = m
        /\ widgets' = w
        /\ pct_ch4' = pct[1]
        /\ pct_c2h4' = pct[2]
        /\ pct_c2h2' = pct[3]
        /\ diagnostico' = diag
        /\ btn_guardar' = click
        /\ dga_history' =
             IF click
             THEN <<registro(w, pct[1], pct[2], pct[3], diag)>>
             ELSE <<>>

\* the Duval part of one run of the script on mode m and widgets w; click
\* is the value st.button returns in this run
RunDuval(m, w, click) ==
    LET pct  == script_pct(m, w)
        diag == clasificar_duval(pct[1], pct[2], pct[3])
    IN  /\ input_mode' = m
        /\ widgets' = w
        /\ pct_ch4' = pct[1]
        /\ pct_c2h4' = pct[2]
        /\ pct_c2h2' = pct[3]
        /\ diagnostico' = diag
        /\ btn_guardar' = click
        /\ dga_history' =
             IF click
             THEN Append(dga_history, registro(w, pct[1], pct[2], pct[3], diag))
             ELSE dga_history

\* the IEEE tab of one run of the script on its widgets' values
RunIEEE(o2, n2, ak, valores) ==
    LET rk   == IF n2 # 0 /\ n2 > 0
                THEN ieee_paso1_clasificar_sistema(Some(o2), Some(n2)) ELSE None
        lims == ieee_obtener_limites(rk, ak)
    IN  /\ o2_ppm' = Some(o2)
        /\ n2_ppm' = Some(n2)
        /\ age_key' = ak
        /\ valores_ppm' = valores
        /\ ratio_key' = rk
        /\ p90' = IF rk # None THEN lims[1] ELSE EmptyRow
        /\ p95' = IF rk # None THEN lims[2] ELSE EmptyRow
        /\ cond_num' = IF rk # None
                       THEN ieee_paso3_condicion(valores, lims[1], lims[2]) ELSE 0
        /\ paso' = 0

\* the state after the first run of the script, every widget at its default
InitShell ==
    LET pct == script_pct(PPM, DefaultWidgets)
        rk  == ieee_paso1_clasificar_sistema(Some(0), Some(10000))
    IN  /\ input_mode = PPM
        /\ widgets = DefaultWidgets
        /\ pct_ch4 = pct[1] /\ pct_c2h4 = pct[2] /\ pct_c2h2 = pct[3]
        /\ diagnostico = clasificar_duval(pct[1], pct[2], pct[3])
        /\ dga_history = <<>>
        /\ btn_guardar = FALSE
        /\ o2_ppm = Some(0) /\ n2_ppm = Some(10000) /\ age_key = "desc"
        /\ valores_ppm = PanelCero
        /\ ratio_key = rk
        /\ p90 = ieee_obtener_limites(rk, "desc")[1]
        /\ p95 = ieee_obtener_limites(rk, "desc")[2]
        /\ cond_num = ieee_paso3_condicion(PanelCero, p90, p95)
        /\ paso = 0

IdleShellVars ==
    /\ input_mode = PPM /\ widgets = DefaultWidgets
    /\ pct_ch4 = 0 /\ pct_c2h4 = 0 /\ pct_c2h2 = 0 /\ diagnostico = None
    /\ dga_history = <<>> /\ btn_guardar = FALSE

RerunIEEE == RunIEEE(o2_ppm[1], n2_ppm[1], age_key, valores_ppm)

\* the radio button: the widgets of the mode left are dropped and come back
\* at their defaults
SetInputMode ==
    /\ \E m \in {PPM, PCT} :
         /\ m # input_mode
         /\ RunDuval(m, DefaultWidgets, FALSE)
    /\ RerunIEEE
    /\ UNCHANGED <<duvalVars, gridVars, sliderVars>>

SetPpm ==
    /\ input_mode = PPM
    /\ \E k \in {"val_ch4", "val_c2h4", "val_c2h2"}, v \in PpmVals :
         /\ widgets[k] # v
         /\ RunDuval(input_mode, [widgets EXCEPT ![k] = v], FALSE)
    /\ RerunIEEE
    /\ UNCHANGED <<duvalVars, gridVars, sliderVars>>

SetSlider ==
    /\ input_mode = PCT
    /\ \/ \E v \in SliderCh4 :
            /\ widgets.pct_ch4 # v
            /\ RunDuval(input_mode, [widgets EXCEPT !.pct_ch4 = v], FALSE)
       \/ \E v \in SliderC2h4 :
            /\ widgets.pct_c2h4 # v
            /\ RunDuval(input_mode, [widgets EXCEPT !.pct_c2h4 = v], FALSE)
    /\ RerunIEEE
    /\ UNCHANGED <<duvalVars, gridVars, sliderVars>>

SetIeeeN2 ==
    /\ \E v \in IeeeN2Vals :
         /\ v # n2_ppm[1]
         /\ RunIEEE(o2_ppm[1], v, age_key, valores_ppm)
    /\ RunDuval(input_mode, widgets, FALSE)
    /\ UNCHANGED <<duvalVars, gridVars, sliderVars>>

SetIeeeGas ==
    /\ \E v \in IeeeCh4Vals :
         /\ v # valores_ppm["CH4"]
         /\ RunIEEE(o2_ppm[1], n2_ppm[1], age_key, [valores_ppm EXCEPT !["CH4"] = v])
    /\ RunDuval(input_mode, widgets, FALSE)
    /\ UNCHANGED <<duvalVars, gridVars, sliderVars>>

\* the save button
ClickSave ==
    /\ Len(dga_history) < MaxHistory
    /\ RunDuval(input_mode, widgets, TRUE)
    /\ RerunIEEE
    /\ UNCHANGED <<duvalVars, gridVars, sliderVars>>

(***************************************************************************)
(* Specifications                                                          *)
(***************************************************************************)
InitDuval  == InitDuvalVars /\ IdleGridVars /\ IdleIEEEVars /\ IdleSliderVars /\ IdleShellVars
NextDuval  == CallClasificar \/ CallTern2cart
SpecDuval  == InitDuval /\ [][NextDuval]_vars

InitGrid   == IdleDuvalVars /\ InitGridVars /\ IdleIEEEVars /\ IdleSliderVars /\ IdleShellVars
NextGrid   == FillSample \/ ClassifySample
SpecGrid   == InitGrid /\ [][NextGrid]_vars

InitIEEE   == IdleDuvalVars /\ IdleGridVars /\ InitIEEEVars /\ IdleSliderVars /\ IdleShellVars
NextIEEE   == Paso1 \/ Paso2 \/ Paso3
SpecIEEE   == InitIEEE /\ [][NextIEEE]_vars

InitSlider == IdleDuvalVars /\ IdleGridVars /\ IdleIEEEVars /\ InitSliderVars /\ IdleShellVars
NextSlider == SliderNormalize \/ SliderClassify
SpecSlider == InitSlider /\ [][NextSlider]_vars

Init == IdleDuvalVars /\ IdleGridVars /\ IdleSliderVars /\ InitShell
Next == SetInputMode \/ SetPpm \/ SetSlider \/ SetIeeeN2 \/ SetIeeeGas \/ ClickSave
Spec == Init /\ [][Next]_vars

(***************************************************************************)
(* Properties                                                              *)
(***************************************************************************)
Sum3(t) == t[1] + t[2] + t[3]

\* the tolerance of the classifier's sum check: 0.01 points
Tol == PU \div 100

\* ---- zone fill against the classifier (SpecGrid) ----

\* C1: for every mesh sample inside the triangle, the zone index the fill
\* writes names the zone clasificar_duval returns for the sample's
\* (ch4, c2h4, c2h2), the samples with ch4 >= 98 included.
C1_FillAgreesWithClassifier ==
    (Z # None /\ zona_g # None /\ Z # NaN) => zonas[Z[1] + 1] = zona_g

\* where the two differ: only on inside samples with ch4 >= 98, which the
\* classifier calls PD and the fill paints T1
C1_DisagreementOnlyInPD ==
    (Z # None /\ zona_g # None /\ Z # NaN /\ zonas[Z[1] + 1] # zona_g)
        => (muestra(gi, gj)[1] >= P(98) /\ zona_g = "PD" /\ Z = <<1>>)

\* ---- IEEE screening (SpecIEEE) ----

Quitar(row, g) == Restrict(row, DOMAIN row \ {g})

\* C2: a gas whose threshold is missing never contributes: removing a gas's
\* entry from p90 and p95 never raises the condition, and with both rows
\* empty the condition is 1 (NORMAL).
C2_MissingThresholdNeverTriggers ==
    paso = 4 =>
        /\ \A g \in GasSet :
             ieee_paso3_condicion(valores_ppm, Quitar(p90, g), Quitar(p95, g)) <= cond_num
        /\ (p90 = EmptyRow /\ p95 = EmptyRow) => cond_num = 1

\* the severity of one gas against complete rows
Severidad(valores, r90, r95, g) ==
    IF get_or_0(valores, g) >= r95[g] THEN 3
    ELSE IF get_or_0(valores, g) >= r90[g] THEN 2 ELSE 1

\* a scan from position k that returns 3 at the first P95 hit
RECURSIVE ScanEarlyExit(_, _, _, _, _)
ScanEarlyExit(k, valores, r90, r95, caution) ==
    IF k > Len(GASES_IEEE) THEN (IF caution THEN 2 ELSE 1)
    ELSE IF get_or_0(valores, GASES_IEEE[k]) >= r95[GASES_IEEE[k]] THEN 3
    ELSE ScanEarlyExit(k + 1, valores, r90, r95,
                       caution \/ get_or_0(valores, GASES_IEEE[k]) >= r90[GASES_IEEE[k]])

CompleteRows == DOMAIN p90 = GasSet /\ DOMAIN p95 = GasSet

\* C3: with complete rows the condition is 3 iff some gas reads >= its P95
\* threshold, otherwise 2 iff some gas reads >= its P90 threshold, otherwise
\* 1; it is the maximum severity over the gases (so independent of the order
\* of the scan) and what a scan that stops at the first P95 hit returns.
C3_CondicionIsMaxSeverity ==
    (paso = 4 /\ CompleteRows) =>
        LET any95 == \E g \in GasSet : get_or_0(valores_ppm, g) >= p95[g]
            any90 == \E g \in GasSet : get_or_0(valores_ppm, g) >= p90[g]
        IN  /\ cond_num = (IF any95 THEN 3 ELSE IF any90 THEN 2 ELSE 1)
            /\ \A g \in GasSet : Severidad(valores_ppm, p90, p95, g) <= cond_num
            /\ \E g \in GasSet : Severidad(valores_ppm, p90, p95, g) = cond_num
            /\ cond_num = ScanEarlyExit(1, valores_ppm, p90, p95, FALSE)

\* ALERT decided by the last gas of the scan alone, after the full engine
C3_Witness ==
    /\ paso = 4 /\ CompleteRows /\ cond_num = 3 /\ ratio_key = "leq02"
    /\ valores_ppm["CO2"] >= p95["CO2"]
    /\ \A g \in GasSet \ {"CO2"} : valores_ppm[g] < p90[g]

\* o2 / n2 <= 0.2 for n2 /= 0
RatioLeq02(o, d) == IF d > 0 THEN 10 * o <= 2 * d ELSE 10 * o >= 2 * d

\* C6: step 1 returns no regime when n2 is zero or absent, whatever o2 is;
\* otherwise leq02 exactly when o2 / n2 <= 0.2 (o2 = 20, n2 = 100 included)
\* and gt02 exactly when the ratio is > 0.2.
C6_RegimeByRatio ==
    (paso \in 2 .. 4) =>
        /\ (n2_ppm = Ausente) => ratio_key = None
        /\ (n2_ppm # Ausente) =>
             LET d == n2_ppm[1]
                 o == IF o2_ppm = Ausente THEN 0 ELSE o2_ppm[1]
             IN  /\ (d = 0) => ratio_key = None
                 /\ (d # 0 /\ RatioLeq02(o, d)) => ratio_key = "leq02"
                 /\ (d # 0 /\ ~RatioLeq02(o, d)) => ratio_key = "gt02"

\* the boundary ratio 0.2 has been classified
C6_Witness ==
    paso = 2 /\ o2_ppm = Some(20) /\ n2_ppm = Some(100) /\ ratio_key = "leq02"

\* C7: for every regime (leq02, gt02, none) and every age bracket, the rows
\* of ieee_obtener_limites and a panel of seven zero readings give
\* condition 1 (NORMAL).  Stated of the runs of the whole engine, where the
\* regime is the one step 1 returned for an N2 reading.
C7_ZeroPanelIsNormal ==
    ( /\ paso = 4
      /\ n2_ppm # Ausente
      /\ ratio_key = ieee_paso1_clasificar_sistema(o2_ppm, n2_ppm)
      /\ valores_ppm = PanelCero
      /\ <<p90, p95>> = ieee_obtener_limites(ratio_key, age_key) )
        => cond_num = 1

\* ---- classifier and projection (SpecDuval) ----

Args == <<arg_ch4, arg_c2h4, arg_c2h2>>

\* C4: every composition that sums to 100 with ch4 >= 98 is classified PD:
\* the PD rule is tried before the T1 rule, which such compositions satisfy
\* as well.
C4_PDBeforeT1 ==
    (zona # None /\ Sum3(Args) = P(100) /\ arg_ch4 >= P(98)) => zona = "PD"

\* a composition that satisfies the guards of both PD and T1 was classified
C4_Witness ==
    /\ zona = "PD" /\ Sum3(Args) = P(100) /\ arg_ch4 >= P(98)
    /\ arg_c2h2 >= 0 /\ arg_c2h2 < P(4) /\ arg_c2h4 >= 0 /\ arg_c2h4 < P(20)

\* C5: for every triple, negative components included, the result is N/A
\* iff all three inputs are zero, the out-of-range sentinel iff they are not
\* all zero and |sum - 100| > 0.01, and one of the seven zones otherwise.
C5_SentinelsExact ==
    zona # None =>
        LET allZero == arg_ch4 = 0 /\ arg_c2h4 = 0 /\ arg_c2h2 = 0
            off     == Abs(Sum3(Args) - P(100)) > Tol
        IN  /\ (zona = NA) <=> allZero
            /\ (zona = Fuera) <=> (~allZero /\ off)
            /\ (~allZero /\ ~off) => zona \in ZoneCodes

\* the compositions of the direct calls that sum to 100
Sum100Inputs ==
    {<<a, b, P(100) - a - b>> : a \in PctVals, b \in PctVals}

\* C8: tern2cart sends (100,0,0), (0,100,0), (0,0,100) to (0.5, 1), (1, 0),
\* (0, 0); on compositions that sum to 100 the inverse of the mesh gives the
\* composition back, and no other composition has the same image.
C8_Tern2cartInvertible ==
    xy # None =>
        /\ (Args = <<P(100), 0, 0>>) => xy = <<PlaneDen \div 2, PlaneDen>>
        /\ (Args = <<0, P(100), 0>>) => xy = <<PlaneDen, 0>>
        /\ (Args = <<0, 0, P(100)>>) => xy = <<0, 0>>
        /\ (Sum3(Args) = P(100)) =>
             /\ cart2tern(xy[1], xy[2]) = Args
             /\ \A t \in Sum100Inputs :
                  tern2cart(t[1], t[2], t[3]) = xy => t = Args

\* an interior composition with three different components was projected
C8_Witness ==
    /\ xy # None /\ Sum3(Args) = P(100)
    /\ arg_ch4 > 0 /\ arg_c2h4 > arg_ch4 /\ arg_c2h2 > arg_c2h4

\* ---- slider branch (SpecSlider) ----

\* C10 as stated: for every pair of slider values the composition handed
\* to the classifier has three non-negative components that sum to 100
\* within 0.01, so the diagnosis is never the out-of-range sentinel.
C10_SliderAlwaysSums100 ==
    sl_diag # None =>
        /\ sl_pct[1] >= 0 /\ sl_pct[2] >= 0 /\ sl_pct[3] >= 0
        /\ Abs(Sum3(sl_pct) - P(100)) <= Tol
        /\ sl_diag # Fuera

\* C10, amended: the three components are non-negative; they sum to 100
\* within 0.01 and the diagnosis is a zone whenever ch4 + c2h4 <= 100 or
\* ch4 + c2h4 > 101; when 100 < ch4 + c2h4 <= 101 the composition handed
\* over is (ch4, c2h4, 0), not renormalised, and the diagnosis is the
\* out-of-range sentinel once ch4 + c2h4 exceeds 100.01.
C10_SliderSums100OutsideBand ==
    sl_diag # None =>
        LET sum == sl_ch4 + sl_c2h4
        IN  /\ sl_pct[1] >= 0 /\ sl_pct[2] >= 0 /\ sl_pct[3] >= 0
            /\ (sum <= P(100) \/ sum > P(101)) =>
                 /\ Abs(Sum3(sl_pct) - P(100)) <= Tol
                 /\ sl_diag \in ZoneCodes
            /\ (sum > P(100) /\ sum <= P(101)) =>
                 /\ sl_pct = <<sl_ch4, sl_c2h4, 0>>
                 /\ (sum > P(100) + Tol) => sl_diag = Fuera

\* sliders more than 1 point over 100 were renormalised and classified
C10_Witness ==
    /\ sl_diag \in ZoneCodes
    /\ sl_ch4 + sl_c2h4 > P(101)
    /\ sl_pct # <<sl_ch4, sl_c2h4, 0>>

\* ---- session history (Spec) ----

\* C9: the history is created empty; a run caused by the save button
\* appends exactly one record, holding the run's rounded percentages and
\* zone code, and keeps the earlier records in order; every other run
\* leaves the list as it was.
C9_HistoryAppendOnly ==
    /\ dga_history = <<>>
    /\ [][ /\ btn_guardar' =>
                /\ Len(dga_history') = Len(dga_history) + 1
                /\ SubSeq(dga_history', 1, Len(dga_history)) = dga_history
                /\ LET r == dga_history'[Len(dga_history')]
                   IN  /\ r.CH4_pct = round1(pct_ch4')
                       /\ r.C2H4_pct = round1(pct_c2h4')
                       /\ r.C2H2_pct = round1(pct_c2h2')
                       /\ r.Codigo = diagnostico'
           /\ ~btn_guardar' => dga_history' = dga_history
         ]_vars

\* two different records were saved and a later run changed the inputs
C9_Witness ==
    /\ Len(dga_history) = 2
    /\ dga_history[1].Codigo # dga_history[2].Codigo
    /\ ~btn_guardar
    /\ diagnostico # dga_history[2].Codigo

\* ---- the final return of clasificar_duval (SpecDuval) ----

\* the return statement recorded for a call is the one that gave its result
ReglaGivesZona ==
    zona # None => (regla \in 1 .. 13 /\ zona = zona_de_regla[regla])

\* C11 as stated: some composition with sum 100 passes the zero and sum
\* checks, satisfies no guard of rules 3 to 12 and gets DT from the final
\* return. The existence is over the compositions the calls are made with,
\* and is asked for in the states where a call has returned.
C11_DefaultReachable ==
    zona # None =>
        \E t \in DuvalInputs :
            Sum3(t) = P(100) /\ regla_duval(t[1], t[2], t[3]) = 13

\* C11, amended: the final return is never reached: every composition that
\* passes the zero and sum checks (sum 100 within 0.01) satisfies the guard
\* of one of rules 3 to 12, and DT is returned by rules 10, 11 and 12 only.
C11_DefaultNeverReached ==
    zona # None =>
        /\ regla # 13
        /\ (Abs(Sum3(Args) - P(100)) <= Tol /\ Sum3(Args) # 0) => regla \in 3 .. 12
        /\ (zona = "DT") => regla \in 10 .. 12

\* a composition on the lower edge of the second DT rule (c2h4 = 40, c2h2
\* between 13 and 29) was classified
C11_Witness ==
    /\ zona = "DT" /\ regla = 11
    /\ Sum3(Args) = P(100) /\ arg_c2h4 = P(40)

\* ---- the zone-label anchors (SpecDuval) ----

\* the anchor the call was made with, if any
EsEtiqueta(k) ==
    Args = <<etiquetas_tern[k][1], etiquetas_tern[k][2], etiquetas_tern[k][3]>>

\* C12: every entry (ch4, c2h4, c2h2, zone) of etiquetas_tern sums to 100 and
\* clasificar_duval returns its zone for it.
C12_LabelAnchorsInTheirZone ==
    zona # None =>
        \A k \in 1 .. Len(etiquetas_tern) :
            EsEtiqueta(k) =>
                /\ Sum3(Args) = P(100)
                /\ zona = etiquetas_tern[k][4]

\* what the code does with its anchors: the T2 anchor (60, 35, 2) sums to 97
\* and is out of range, the DT anchor (40, 35, 25) is in D2 by rule 9, and
\* the other five are in the zone they label
EtiquetasSegunCodigo ==
    zona # None =>
        \A k \in 1 .. Len(etiquetas_tern) :
            EsEtiqueta(k) =>
                zona = CASE k = 3 -> Fuera
                         [] k = 7 -> "D2"
                         [] OTHER -> etiquetas_tern[k][4]

====
